---- MODULE Spec2Model ----
(***************************************************************************)
(* Model of the Windows MDM <Exec> command extractor                       *)
(* (mdm-exec-extractor.py, with mdm.py as the strict own-block variant).   *)
(*                                                                         *)
(* Text is a sequence of one-character strings.  A Python Optional value   *)
(* and an optional XML child element are both a sequence of length <= 1:   *)
(* << >> is None / "no such child", <<v>> is the value / the child.  The   *)
(* .text of an element is a character sequence, << >> standing for both    *)
(* None and "" (the code reads it only as `c.text or ""`).                 *)
(***************************************************************************)
EXTENDS Integers, Sequences, FiniteSets, TLC

VARIABLES
    bundle,     \* the ZIP: sequence of members [name, kind, nodes]
    pc,         \* position of the running function
    docIdx,     \* index into zf.namelist() of the member being processed
    stack,      \* pending walk() calls, innermost first
    visit,      \* locals of the walk() call that ran last (<< >> before any)
    out,        \* discover_exec_entries_from_zip: the list `out`
    emitted,    \* history: <<docIdx, node>> that produced out[i]
    seen,       \* main: the dict `seen`, in insertion order, as key/record pairs
    execs,      \* main: the sorted list `execs`
    output,     \* main: the final list written to OUTPUT_FILE
    call,       \* arguments of the helper function under test
    ret,        \* its return value, << >> before it returns
    strictOut,  \* mdm.py's discover_exec_entries_from_zip: the list `out`
    attempt,    \* download: the loop variable `attempt` (0 before the loop)
    tries       \* history: what each urlopen/read so far did, in order

vars == <<bundle, pc, docIdx, stack, visit, out, emitted, seen, execs, output, call, ret,
          strictOut, attempt, tries>>

pipelineVars == <<bundle, docIdx, stack, visit, out, emitted, seen, execs, output>>

variantVars == <<strictOut>>

downloadVars == <<attempt, tries>>

(***************************************************************************)
(* Characters and strings                                                  *)
(***************************************************************************)
None == << >>

Some(v) == <<v>>

\* Python: x or ""  (x an Optional[str])
OrEmpty(x) == IF x = None THEN << >> ELSE x[1]

\* Unicode code point of the characters the model uses (str comparison order)
Code(c) ==
    CASE c = "\t" -> 9   [] c = " " -> 32  [] c = "." -> 46  [] c = "/" -> 47
      [] c = "0" -> 48   [] c = "1" -> 49  [] c = "5" -> 53  [] c = "7" -> 55
      [] c = "9" -> 57   [] c = "C" -> 67  [] c = "E" -> 69  [] c = "G" -> 71
      [] c = "L" -> 76   [] c = "M" -> 77  [] c = "N" -> 78  [] c = "T" -> 84
      [] c = "U" -> 85   [] c = "X" -> 88
      [] c = "a" -> 97   [] c = "b" -> 98  [] c = "c" -> 99  [] c = "d" -> 100
      [] c = "e" -> 101  [] c = "g" -> 103 [] c = "h" -> 104 [] c = "i" -> 105
      [] c = "l" -> 108  [] c = "m" -> 109 [] c = "n" -> 110 [] c = "p" -> 112
      [] c = "q" -> 113  [] c = "r" -> 114 [] c = "t" -> 116 [] c = "u" -> 117
      [] c = "x" -> 120  [] c = "}" -> 125
      [] OTHER -> 0

\* str.isspace() on one character
IsSpace(c) == c \in {" ", "\t"}

\* str.lower() on one character
LowerChar(c) ==
    CASE c = "C" -> "c" [] c = "E" -> "e" [] c = "G" -> "g" [] c = "L" -> "l"
      [] c = "M" -> "m" [] c = "N" -> "n" [] c = "T" -> "t" [] c = "U" -> "u"
      [] c = "X" -> "x"
      [] OTHER -> c

\* str.lower()
Lower(s) == [i \in 1..Len(s) |-> LowerChar(s[i])]

RECURSIVE LStrip(_)
\* str.lstrip()
LStrip(s) == IF s # << >> /\ IsSpace(Head(s)) THEN LStrip(Tail(s)) ELSE s

RECURSIVE RStrip(_)
\* str.rstrip()
RStrip(s) ==
    IF s # << >> /\ IsSpace(s[Len(s)]) THEN RStrip(SubSeq(s, 1, Len(s) - 1)) ELSE s

\* str.strip()
Strip(s) == RStrip(LStrip(s))

RECURSIVE SplitWs(_, _)
\* str.split(): the whitespace-separated words of s; cur is the word being read
SplitWs(s, cur) ==
    IF s = << >> THEN (IF cur = << >> THEN << >> ELSE <<cur>>)
    ELSE IF IsSpace(Head(s))
         THEN (IF cur = << >> THEN << >> ELSE <<cur>>) \o SplitWs(Tail(s), << >>)
         ELSE SplitWs(Tail(s), Append(cur, Head(s)))

RECURSIVE JoinSp(_)
\* " ".join(words)
JoinSp(words) ==
    IF words = << >> THEN << >>
    ELSE IF Len(words) = 1 THEN words[1]
    ELSE words[1] \o <<" ">> \o JoinSp(Tail(words))

\* " ".join(val.split())
NormalizeWs(val) == JoinSp(SplitWs(val, << >>))

\* str.endswith(suffix)
EndsWith(s, suffix) ==
    /\ Len(s) >= Len(suffix)
    /\ SubSeq(s, Len(s) - Len(suffix) + 1, Len(s)) = suffix

RECURSIVE AfterLast(_, _)
\* s.split(sep)[-1] for a one-character sep
AfterLast(s, sep) ==
    IF \E i \in 1..Len(s) : s[i] = sep
    THEN AfterLast(SubSeq(s, (CHOOSE i \in 1..Len(s) : s[i] = sep) + 1, Len(s)), sep)
    ELSE s

\* s.split(sep, 1)[-1] for a one-character sep
AfterFirst(s, sep) ==
    IF \E i \in 1..Len(s) : s[i] = sep
    THEN SubSeq(s, (CHOOSE i \in 1..Len(s) : s[i] = sep /\ \A j \in 1..(i - 1) : s[j] # sep) + 1,
                Len(s))
    ELSE s

RECURSIVE StrLess(_, _)
\* Python str `<`: lexicographic on code points
StrLess(s, t) ==
    IF t = << >> THEN FALSE
    ELSE IF s = << >> THEN TRUE
    ELSE IF Head(s) = Head(t) THEN StrLess(Tail(s), Tail(t))
    ELSE Code(Head(s)) < Code(Head(t))

\* all character sequences over alphabet A of length <= n
StringsUpTo(A, n) == UNION {[1..k -> A] : k \in 0..n}

(***************************************************************************)
(* Bounds of the input domains                                             *)
(***************************************************************************)
\* longest prefix / name handed to join_uri on its own
MaxUriLen == 3

\* longest element text handed to the chain resolvers on their own
MaxTextLen == 4

\* longest DFProperties chain handed to the chain resolvers on their own
MaxChain == 2

\* longest list of raw records handed to main's aggregation on its own
MaxRaw == 3

\* most <Node> elements in the document of a one-document bundle
MaxNodes == 3

\* most members of a bundle of small documents
MaxDocs == 2

\* most members of a bundle handed to discover_exec_entries_from_zip on its own
MaxMembers == 3

\* largest `retries` handed to download (its default value)
MaxRetries == 3

(***************************************************************************)
(* XML helpers                                                             *)
(***************************************************************************)
\* lname(tag): namespace-stripped, lower-cased tag
lname(tag) == Lower(AfterFirst(tag, "}"))

\* first_child_text, given the (optional) first child of that name:
\* its stripped text, or None when the child is missing or the text is empty
first_child_text(child) ==
    IF child = None THEN None
    ELSE LET txt == Strip(child[1]) IN IF txt = << >> THEN None ELSE Some(txt)

(***************************************************************************)
(* A <DFProperties> element: owner is the node it belongs to (the identity *)
(* of the Element object); every other field is the optional first child   *)
(* of that name.  AccessType holds the tags of its children, Applicability *)
(* its optional OsBuildVersion child, DFFormat the optional tag of its     *)
(* first child and its text; the others hold the child's text.             *)
(***************************************************************************)
Block(owner, access, desc, app, fmt, dv) ==
    [owner |-> owner, AccessType |-> access, Description |-> desc,
     Applicability |-> app, DFFormat |-> fmt, DefaultValue |-> dv]

\* has_exec_access(dfprops): AccessType has a child whose local name is "exec"
has_exec_access(dfprops) ==
    LET access == dfprops.AccessType
    IN  IF access = None THEN FALSE
        ELSE \E i \in 1..Len(access[1]) : lname(access[1][i]) = <<"e", "x", "e", "c">>

\* df_format(dfprops): tag of DFFormat's first child, else its lower-cased text
df_format(dfprops) ==
    LET df == dfprops.DFFormat
    IN  IF df = None THEN None
        ELSE IF df[1].child # None THEN Some(lname(df[1].child[1]))
        ELSE LET txt == Strip(df[1].text)
             IN  IF txt # << >> THEN Some(Lower(txt)) ELSE None

\* default_value(dfprops)
default_value(dfprops) == first_child_text(dfprops.DefaultValue)

\* a bug the resolver could have: only the nearest block is consulted
inherited_text_nearest_only(dfprops_chain, child_name) ==
    IF dfprops_chain = << >> THEN None
    ELSE LET val == first_child_text(Head(dfprops_chain)[child_name])
         IN  IF val # None THEN Some(NormalizeWs(val[1])) ELSE None

RECURSIVE inherited_text_from_chain(_, _)
\* inherited_text_from_chain(dfprops_chain, child_name)
inherited_text_from_chain(dfprops_chain, child_name) ==
    IF dfprops_chain = << >> THEN None
    ELSE LET val == first_child_text(Head(dfprops_chain)[child_name])
         IN  IF val # None THEN Some(NormalizeWs(val[1]))
             ELSE inherited_text_from_chain(Tail(dfprops_chain), child_name)

RECURSIVE inherited_osbuild_from_chain(_)
\* inherited_osbuild_from_chain(dfprops_chain)
inherited_osbuild_from_chain(dfprops_chain) ==
    IF dfprops_chain = << >> THEN None
    ELSE LET app == Head(dfprops_chain).Applicability
             val == IF app # None THEN first_child_text(app[1].OsBuildVersion) ELSE None
         IN  IF val # None THEN Some(Strip(val[1]))
             ELSE inherited_osbuild_from_chain(Tail(dfprops_chain))

(***************************************************************************)
(* Exec payload builder.  A line is the concatenation of its literal       *)
(* pieces, each kept whole as one element, and the characters of the       *)
(* values formatted into it.                                               *)
(***************************************************************************)
FmtChr == <<"c", "h", "r">>

FmtNull == <<"n", "u", "l", "l">>

\* a bug the data rule could have: the "null" format is not considered
must_emit_data_default_only(eff_fmt, default_val) == default_val # None

\* must_emit_data(eff_fmt, default_val)
must_emit_data(eff_fmt, default_val) ==
    IF eff_fmt = FmtNull THEN TRUE
    ELSE IF default_val # None THEN TRUE
    ELSE FALSE

\* build_exec_lines(uri, fmt, default_val); cmdid is the value uuid.uuid4() returns
build_exec_lines(uri, fmt, default_val, cmdid) ==
    LET eff_fmt == Lower(IF fmt = None \/ fmt[1] = << >> THEN FmtChr ELSE fmt[1])
        lines == << <<"<Exec>">>,
                    <<"  <CmdID>">> \o cmdid \o <<"</CmdID>">>,
                    <<"  <Item>">>,
                    <<"    <Target>">>,
                    <<"      <LocURI>">> \o Strip(uri) \o <<"</LocURI>">>,
                    <<"    </Target>">>,
                    <<"    <Meta>">>,
                    <<"      <Format xmlns=\"syncml:metinf\">">> \o eff_fmt \o <<"</Format>">>,
                    <<"      <Type>text/plain</Type>">>,
                    <<"    </Meta>">> >>
        data == IF must_emit_data(eff_fmt, default_val)
                THEN IF default_val # None /\ eff_fmt # FmtNull
                     THEN << <<"    <Data>">> \o default_val[1] \o <<"</Data>">> >>
                     ELSE << <<"    <Data></Data>">> >>
                ELSE << >>
    IN  lines \o data \o << <<"  </Item>">>, <<"</Exec>">> >>

(***************************************************************************)
(* main: deduplicate by OMA_URI, sort, render                              *)
(***************************************************************************)
\* the dict `seen` holds key k
InSeen(k, seenSoFar) == \E i \in 1..Len(seenSoFar) : seenSoFar[i].key = k

\* a bug the dedup loop could have: records with an empty address are kept
dedup_step_keep_empty(e, seenSoFar) ==
    LET uri == Strip(e.OMA_URI)
    IN  IF ~InSeen(uri, seenSoFar)
        THEN Append(seenSoFar, [key |-> uri, value |-> e])
        ELSE seenSoFar

\* one turn of `for e in raw_execs`
dedup_step(e, seenSoFar) ==
    LET uri == Strip(e.OMA_URI)
    IN  IF uri # << >> /\ ~InSeen(uri, seenSoFar)
        THEN Append(seenSoFar, [key |-> uri, value |-> e])
        ELSE seenSoFar

RECURSIVE dedup(_, _)
\* the loop `for e in raw_execs`, started with the dict seenSoFar
dedup(raw_execs, seenSoFar) ==
    IF raw_execs = << >> THEN seenSoFar
    ELSE dedup(Tail(raw_execs), dedup_step(Head(raw_execs), seenSoFar))

\* a bug the sort key could have: only the address is compared
sort_key_less_uri_only(x, y) == StrLess(x.OMA_URI, y.OMA_URI)

\* (x["Source"], x["OMA_URI"]) < (y["Source"], y["OMA_URI"]), as Python compares tuples
sort_key_less(x, y) ==
    IF x.Source # y.Source THEN StrLess(x.Source, y.Source)
    ELSE StrLess(x.OMA_URI, y.OMA_URI)

RECURSIVE insert_sorted(_, _)
\* x placed behind every element of the sorted list that is not greater than it
insert_sorted(x, sortedList) ==
    IF sortedList = << >> THEN <<x>>
    ELSE IF sort_key_less(x, Head(sortedList)) THEN <<x>> \o sortedList
    ELSE <<Head(sortedList)>> \o insert_sorted(x, Tail(sortedList))

RECURSIVE sorted(_, _)
\* sorted(values, key=...): stable, ascending; acc is the sorted part so far
sorted(values, acc) ==
    IF values = << >> THEN acc
    ELSE sorted(Tail(values), insert_sorted(Head(values), acc))

\* the record main appends to its `out` for e, cmdid being the fresh uuid
final_record(e, cmdid) ==
    [Source |-> e.Source, CommandName |-> e.CommandName, OMA_URI |-> e.OMA_URI,
     MinOSVersion |-> e.MinOSVersion, Description |-> e.Description,
     Exec |-> build_exec_lines(e.OMA_URI, e.DeclaredFormat, e.DefaultValue, cmdid)]

\* a bug join_uri could have: the separator is added even after a trailing "/"
join_uri_doubled(prefix, name) ==
    IF prefix = << >> THEN name
    ELSE IF name = << >> THEN prefix
    ELSE prefix \o <<"/">> \o name

\* join_uri(prefix, name)
join_uri(prefix, name) ==
    IF prefix = << >> THEN name
    ELSE IF name = << >> THEN prefix
    ELSE IF EndsWith(prefix, <<"/">>) THEN prefix \o name
    ELSE prefix \o <<"/">> \o name

(***************************************************************************)
(* The walk.  A document is [name, kind, nodes]: kind "tree" parses and    *)
(* has a MgmtTree, "malformed" makes ET.fromstring raise, "nomgmt" parses  *)
(* but holds no MgmtTree.  nodes[i] is a <Node>: parent is the index of    *)
(* the enclosing <Node> (0: a child of MgmtTree), children follow in index *)
(* order; NodeName, Path and DFProperties are its optional first children. *)
(***************************************************************************)
\* the <Node> children of node i (of MgmtTree for i = 0), in document order
ChildNodes(nodes, i) == SelectSeq([j \in 1..Len(nodes) |-> j], LAMBDA j : nodes[j].parent = i)

\* bool(element): an Element is true when it has children
element_truthy(dfprops) ==
    \/ dfprops.AccessType # None \/ dfprops.Description # None
    \/ dfprops.Applicability # None \/ dfprops.DFFormat # None
    \/ dfprops.DefaultValue # None

\* cur_chain: the node's own DFProperties, if any, put in front of the chain
cur_chain_of(node_dfprops, dfprops_chain) ==
    IF node_dfprops # None THEN <<node_dfprops[1]>> \o dfprops_chain ELSE dfprops_chain

\* a bug the walk could have (the rule of the strict variant): own block only
eff_dfprops_own_only(node_dfprops, cur_chain) == node_dfprops

\* a bug the walk could have: the block at the far end of the chain is taken
eff_dfprops_farthest(node_dfprops, cur_chain) ==
    IF cur_chain # << >> THEN Some(cur_chain[Len(cur_chain)]) ELSE None

\* eff_dfprops = node_dfprops or (cur_chain[0] if cur_chain else None)
eff_dfprops_of(node_dfprops, cur_chain) ==
    IF node_dfprops # None /\ element_truthy(node_dfprops[1]) THEN node_dfprops
    ELSE IF cur_chain # << >> THEN Some(cur_chain[1])
    ELSE None

RECURSIVE first_format_in_chain(_)
\* the first declared format found along the chain
first_format_in_chain(chain) ==
    IF chain = << >> THEN None
    ELSE IF df_format(Head(chain)) # None THEN df_format(Head(chain))
    ELSE first_format_in_chain(Tail(chain))

\* a bug the walk could have: the declared format is inherited along the chain
exec_record_format_inherited(filename, node_name, this_uri, eff_dfprops, cur_chain) ==
    [Source |-> AfterLast(filename, "/"),
     CommandName |-> node_name,
     OMA_URI |-> this_uri,
     MinOSVersion |-> inherited_osbuild_from_chain(cur_chain),
     Description |-> inherited_text_from_chain(cur_chain, "Description"),
     DeclaredFormat |-> first_format_in_chain(cur_chain),
     DefaultValue |-> default_value(eff_dfprops)]

\* the record walk() appends for an Exec-capable node
exec_record(filename, node_name, this_uri, eff_dfprops, cur_chain) ==
    [Source |-> AfterLast(filename, "/"),
     CommandName |-> node_name,
     OMA_URI |-> this_uri,
     MinOSVersion |-> inherited_osbuild_from_chain(cur_chain),
     Description |-> inherited_text_from_chain(cur_chain, "Description"),
     DeclaredFormat |-> df_format(eff_dfprops),
     DefaultValue |-> default_value(eff_dfprops)]

\* the locals of one walk(node, inherited_path, filename, dfprops_chain) call
walk_locals(nodes, frame, filename) ==
    LET n == nodes[frame.node]
        node_name == OrEmpty(first_child_text(n.NodeName))
        path == first_child_text(n.Path)
        path_prefix == IF path # None THEN path[1] ELSE frame.inherited_path
        this_uri == join_uri(path_prefix, node_name)
        cur_chain == cur_chain_of(n.DFProperties, frame.dfprops_chain)
        eff_dfprops == eff_dfprops_of(n.DFProperties, cur_chain)
    IN  [node |-> frame.node, node_name |-> node_name, this_uri |-> this_uri,
         cur_chain |-> cur_chain, eff_dfprops |-> eff_dfprops,
         record |-> IF eff_dfprops # None /\ has_exec_access(eff_dfprops[1])
                    THEN Some(exec_record(filename, node_name, this_uri,
                                          eff_dfprops[1], cur_chain))
                    ELSE None]

\* a bug the walk could have: children are walked with an empty inherited path
child_frames_no_prefix(nodes, locals) ==
    LET kids == ChildNodes(nodes, locals.node)
    IN  [k \in 1..Len(kids) |->
            [node |-> kids[k], inherited_path |-> << >>,
             dfprops_chain |-> locals.cur_chain]]

\* the walk() calls made for the <Node> children of a visited node
child_frames(nodes, locals) ==
    LET kids == ChildNodes(nodes, locals.node)
    IN  [k \in 1..Len(kids) |->
            [node |-> kids[k], inherited_path |-> locals.this_uri,
             dfprops_chain |-> locals.cur_chain]]

\* the walk() calls made for the top-level <Node> elements of MgmtTree
top_frames(nodes) ==
    LET tops == ChildNodes(nodes, 0)
    IN  [k \in 1..Len(tops) |->
            [node |-> tops[k],
             inherited_path |-> OrEmpty(first_child_text(nodes[tops[k]].Path)),
             dfprops_chain |-> IF nodes[tops[k]].DFProperties # None
                               THEN <<nodes[tops[k]].DFProperties[1]>>
                               ELSE << >>]]

\* name.lower().endswith(".xml")
is_xml(name) == EndsWith(Lower(name), <<".", "x", "m", "l">>)

(***************************************************************************)
(* join_uri on its own: every prefix and name over a small alphabet        *)
(***************************************************************************)
UriChars == {"a", "b", "/"}

\* values of the variables a specification does not use
Idle ==
    /\ bundle = << >> /\ docIdx = 0 /\ stack = << >> /\ visit = << >>
    /\ out = << >> /\ emitted = << >> /\ seen = << >> /\ execs = << >>
    /\ output = << >>
    /\ strictOut = << >> /\ attempt = 0 /\ tries = << >>

InitCompose ==
    /\ Idle
    /\ pc = "call"
    /\ \E prefix \in StringsUpTo(UriChars, MaxUriLen), name \in StringsUpTo(UriChars, MaxUriLen) :
          call = [fn |-> "join_uri", prefix |-> prefix, name |-> name]
    /\ ret = None

CallJoinUri ==
    /\ pc = "call"
    /\ call.fn = "join_uri"
    /\ ret' = Some(join_uri(call.prefix, call.name))
    /\ pc' = "return"
    /\ UNCHANGED <<call, pipelineVars>>
    /\ UNCHANGED <<variantVars, downloadVars>>

NextCompose == CallJoinUri

SpecCompose == InitCompose /\ [][NextCompose]_vars

\* the prefix without the one separator it may already end with
WithoutFinalSep(prefix) ==
    IF EndsWith(prefix, <<"/">>) THEN SubSeq(prefix, 1, Len(prefix) - 1) ELSE prefix

C9_NoTrailingSeparator ==
    (pc = "return" /\ call.fn = "join_uri") =>
        (ret[1] = << >> \/ ret[1][Len(ret[1])] # "/")

(***************************************************************************)
(* The chain resolvers on their own: every chain of blocks that carry the  *)
(* attribute with any text over a small alphabet, or lack it               *)
(***************************************************************************)
TextChars == {"a", " "}

\* an optional child element with any text
TextElems == {None} \cup {Some(t) : t \in StringsUpTo(TextChars, MaxTextLen)}

\* the blocks that differ in the one attribute
AttrBlocks(attr) ==
    IF attr = "Description"
    THEN {Block(0, None, d, None, None, None) : d \in TextElems}
    ELSE {Block(0, None, None, app, None, None) :
             app \in {None} \cup {Some([OsBuildVersion |-> v]) : v \in TextElems}}

InitResolve ==
    /\ Idle
    /\ pc = "call"
    /\ \E attr \in {"Description", "OsBuildVersion"}, k \in 0..MaxChain :
          \E chain \in [1..k -> AttrBlocks(attr)] :
             call = [fn |-> "resolve", attr |-> attr, chain |-> chain]
    /\ ret = None

CallResolve ==
    /\ pc = "call"
    /\ call.fn = "resolve"
    /\ ret' = Some(IF call.attr = "Description"
                   THEN inherited_text_from_chain(call.chain, "Description")
                   ELSE inherited_osbuild_from_chain(call.chain))
    /\ pc' = "return"
    /\ UNCHANGED <<call, pipelineVars>>
    /\ UNCHANGED <<variantVars, downloadVars>>

NextResolve == CallResolve

SpecResolve == InitResolve /\ [][NextResolve]_vars

\* the text a block carries for the attribute (empty when it carries none)
RawValue(block, attr) ==
    IF attr = "Description" THEN OrEmpty(block.Description)
    ELSE IF block.Applicability = None THEN << >>
    ELSE OrEmpty(block.Applicability[1].OsBuildVersion)

\* a text is empty or whitespace-only
IsBlank(t) == \A i \in 1..Len(t) : IsSpace(t[i])

\* no whitespace at either end, no two whitespace characters in a row, spaces only
IsNormalized(t) ==
    /\ t # << >> => (~IsSpace(t[1]) /\ ~IsSpace(t[Len(t)]))
    /\ \A i \in 1..Len(t) : IsSpace(t[i]) => (t[i] = " " /\ ~IsSpace(t[i + 1]))

\* index of the first block of the chain carrying a non-blank value, 0 if none
FirstCarrier(chain, attr) ==
    IF \E i \in 1..Len(chain) : ~IsBlank(RawValue(chain[i], attr))
    THEN CHOOSE i \in 1..Len(chain) :
            /\ ~IsBlank(RawValue(chain[i], attr))
            /\ \A j \in 1..(i - 1) : IsBlank(RawValue(chain[j], attr))
    ELSE 0

\* r is the whitespace-normalized form of raw: normalized, with the same words
IsNormalizationOf(r, raw) ==
    /\ IsNormalized(r)
    /\ SplitWs(r, << >>) = SplitWs(raw, << >>)

\* r is raw with the whitespace at its ends removed and nothing else changed
IsTrimOf(r, raw) ==
    /\ r # << >> => (~IsSpace(r[1]) /\ ~IsSpace(r[Len(r)]))
    /\ \E i \in 0..Len(raw) :
          /\ SubSeq(raw, i + 1, i + Len(r)) = r
          /\ IsBlank(SubSeq(raw, 1, i))
          /\ IsBlank(SubSeq(raw, i + Len(r) + 1, Len(raw)))

\* C6 (as claimed): resolve(chain, attribute), for the description and for the
\* minimum version alike, returns the whitespace-normalized value of the first
\* block in chain order that carries a non-empty value, and absent if none does.
C6_ResolveNormalized ==
    (pc = "return" /\ call.fn = "resolve") =>
        LET i == FirstCarrier(call.chain, call.attr)
        IN  IF i = 0 THEN ret[1] = None
            ELSE /\ ret[1] # None
                 /\ IsNormalizationOf(ret[1][1], RawValue(call.chain[i], call.attr))

\* C6 (amended): resolve returns the value of the first block in chain order that
\* carries a non-empty value, skipping blocks where it is missing or blank, and
\* absent if none does; a description is returned whitespace-normalized, a minimum
\* version only with its ends trimmed (internal whitespace is kept).
C6_ResolveFirstCarrier ==
    (pc = "return" /\ call.fn = "resolve") =>
        LET i == FirstCarrier(call.chain, call.attr)
        IN  IF i = 0 THEN ret[1] = None
            ELSE /\ ret[1] # None
                 /\ IF call.attr = "Description"
                    THEN IsNormalizationOf(ret[1][1], RawValue(call.chain[i], call.attr))
                    ELSE IsTrimOf(ret[1][1], RawValue(call.chain[i], call.attr))

\* C6 witness: the nearest block has a blank description, the next one carries
\* " a  a", and resolve has returned "a a"
C6_Witness ==
    /\ pc = "return" /\ call.fn = "resolve" /\ call.attr = "Description"
    /\ Len(call.chain) = 2
    /\ call.chain[1].Description = Some(<<" ">>)
    /\ call.chain[2].Description = Some(<<"a", " ", " ", "a">>)
    /\ ret = Some(Some(<<"a", " ", "a">>))

(***************************************************************************)
(* build_exec_lines on its own: the addresses, formats and default values  *)
(* the walker can hand it (stripped, non-empty; formats lower-case)        *)
(***************************************************************************)
\* the values uuid.uuid4() may return
Uuids == {<<"u", "1">>, <<"u", "2">>}

SynthUris == StringsUpTo({"a", "/"}, MaxUriLen) \ {<< >>}

SynthFormats == {None, Some(FmtChr), Some(FmtNull), Some(<<"i", "n", "t">>)}

SynthDefaults ==
    {None} \cup {Some(t) : t \in {u \in StringsUpTo({"5", " "}, 3) : u # << >> /\ Strip(u) = u}}

InitSynth ==
    /\ Idle
    /\ pc = "call"
    /\ \E uri \in SynthUris, fmt \in SynthFormats, dv \in SynthDefaults :
          call = [fn |-> "build_exec_lines", uri |-> uri, fmt |-> fmt, default_val |-> dv]
    /\ ret = None

CallBuildExecLines ==
    /\ pc = "call"
    /\ call.fn = "build_exec_lines"
    /\ \E cmdid \in Uuids :
          ret' = Some(build_exec_lines(call.uri, call.fmt, call.default_val, cmdid))
    /\ pc' = "return"
    /\ UNCHANGED <<call, pipelineVars>>
    /\ UNCHANGED <<variantVars, downloadVars>>

NextSynth == CallBuildExecLines

SpecSynth == InitSynth /\ [][NextSynth]_vars

\* the line is a <Data> line
IsDataLine(line) == line # << >> /\ line[1] \in {"    <Data>", "    <Data></Data>"}

\* the text a <Data> line carries
DataOf(line) ==
    IF line[1] = "    <Data></Data>" THEN << >> ELSE SubSeq(line, 2, Len(line) - 1)

\* the payload has the fixed envelope around address uri and format eff, and its
\* data lines (none or one) are `data`
HasPayloadShape(lines, uri, eff, data) ==
    /\ Len(lines) = 12 + Len(data)
    /\ lines[1] = <<"<Exec>">>
    /\ \E id \in Uuids : lines[2] = <<"  <CmdID>">> \o id \o <<"</CmdID>">>
    /\ lines[3] = <<"  <Item>">>
    /\ lines[4] = <<"    <Target>">>
    /\ lines[5] = <<"      <LocURI>">> \o uri \o <<"</LocURI>">>
    /\ lines[6] = <<"    </Target>">>
    /\ lines[7] = <<"    <Meta>">>
    /\ lines[8] = <<"      <Format xmlns=\"syncml:metinf\">">> \o eff \o <<"</Format>">>
    /\ lines[9] = <<"      <Type>text/plain</Type>">>
    /\ lines[10] = <<"    </Meta>">>
    /\ \A i \in 1..Len(data) : IsDataLine(lines[10 + i]) /\ DataOf(lines[10 + i]) = data[i]
    /\ lines[Len(lines) - 1] = <<"  </Item>">>
    /\ lines[Len(lines)] = <<"</Exec>">>
    /\ \A i \in (1..10) \cup {Len(lines) - 1, Len(lines)} : ~IsDataLine(lines[i])

\* C10: with effective format = declaredFormat if present else "chr", the payload
\* has a data line iff the effective format is "null" or a default value is
\* present; the data line carries the default value when one is present and the
\* format is not "null", and is empty otherwise; the other lines have the fixed
\* shape and order, LocURI carrying the address and Format the effective format.
C10_SynthesizeDataRule ==
    (pc = "return" /\ call.fn = "build_exec_lines") =>
        LET eff == IF call.fmt # None THEN call.fmt[1] ELSE FmtChr
            dv == call.default_val
            included == (eff = FmtNull) \/ (dv # None)
            carried == IF dv # None /\ eff # FmtNull THEN dv[1] ELSE << >>
        IN  HasPayloadShape(ret[1], call.uri, eff, IF included THEN <<carried>> ELSE << >>)

\* C10 witness: format "null" and no default value gave an empty data line
C10_Witness ==
    /\ pc = "return" /\ call.fn = "build_exec_lines"
    /\ call.fmt = Some(FmtNull) /\ call.default_val = None
    /\ Len(ret[1]) = 13
    /\ ret[1][11] = <<"    <Data></Data>">>

(***************************************************************************)
(* main after discover_exec_entries_from_zip has returned                  *)
(***************************************************************************)
Dedup ==
    /\ pc = "dedup"
    /\ seen' = dedup(out, << >>)
    /\ pc' = "sort"
    /\ UNCHANGED <<bundle, docIdx, stack, visit, out, emitted, execs, output, call, ret>>
    /\ UNCHANGED <<variantVars, downloadVars>>

Sort ==
    /\ pc = "sort"
    /\ execs' = sorted([i \in 1..Len(seen) |-> seen[i].value], << >>)
    /\ pc' = "finalize"
    /\ UNCHANGED <<bundle, docIdx, stack, visit, out, emitted, seen, output, call, ret>>
    /\ UNCHANGED <<variantVars, downloadVars>>

Finalize ==
    /\ pc = "finalize"
    /\ \E cmdids \in [1..Len(execs) -> Uuids] :
          output' = [i \in 1..Len(execs) |-> final_record(execs[i], cmdids[i])]
    /\ pc' = "done"
    /\ UNCHANGED <<bundle, docIdx, stack, visit, out, emitted, seen, execs, call, ret>>
    /\ UNCHANGED <<variantVars, downloadVars>>

(***************************************************************************)
(* The aggregation on its own: every list of raw records the walk can      *)
(* return, over two sources and a few addresses                            *)
(***************************************************************************)
SrcA == <<"a", ".", "x", "m", "l">>

SrcB == <<"b", ".", "x", "m", "l">>

RawUris == {<< >>, <<"a">>, <<"a", "/", "b">>, <<"b">>}

RawRecords ==
    {[Source |-> src, CommandName |-> AfterLast(uri, "/"), OMA_URI |-> uri,
      MinOSVersion |-> None, Description |-> desc, DeclaredFormat |-> None,
      DefaultValue |-> None] :
        src \in {SrcA, SrcB}, uri \in RawUris, desc \in {None, Some(<<"d">>)}}

InitAgg ==
    /\ bundle = << >> /\ docIdx = 0 /\ stack = << >> /\ visit = << >>
    /\ emitted = << >> /\ seen = << >> /\ execs = << >> /\ output = << >>
    /\ call = << >> /\ ret = None
    /\ strictOut = << >> /\ attempt = 0 /\ tries = << >>
    /\ pc = "dedup"
    /\ \E k \in 0..MaxRaw : out \in [1..k -> RawRecords]

NextAgg == Dedup \/ Sort \/ Finalize

SpecAgg == InitAgg /\ [][NextAgg]_vars

\* (source, address) of x is at most that of y, lexicographically
PairLeq(x, y) ==
    \/ StrLess(x.Source, y.Source)
    \/ x.Source = y.Source /\ (x.OMA_URI = y.OMA_URI \/ StrLess(x.OMA_URI, y.OMA_URI))

\* the fields main copies from a raw record into its output record
SameCommand(o, e) ==
    /\ o.Source = e.Source /\ o.CommandName = e.CommandName /\ o.OMA_URI = e.OMA_URI
    /\ o.MinOSVersion = e.MinOSVersion /\ o.Description = e.Description

\* raw record i comes first among those with its address when the raw records
\* are ordered by (source, address), records that tie staying in list order
FirstInSortedOrder(raw, i) ==
    \A j \in 1..Len(raw) :
        raw[j].OMA_URI = raw[i].OMA_URI =>
            \/ StrLess(raw[i].Source, raw[j].Source)
            \/ raw[i].Source = raw[j].Source /\ i <= j

\* C1: for every list of raw records, in whatever order the documents were
\* walked, the record retained for each distinct address is the first one with
\* that address when all records are ordered by (source, address) ascending.
C1_DedupFirstInSortedOrder ==
    pc = "done" =>
        /\ \A i \in 1..Len(out) :
              out[i].OMA_URI # << >> =>
                 \E k \in 1..Len(output) : output[k].OMA_URI = out[i].OMA_URI
        /\ \A k \in 1..Len(output) :
              \E i \in 1..Len(out) :
                 /\ out[i].OMA_URI = output[k].OMA_URI
                 /\ FirstInSortedOrder(out, i)
                 /\ SameCommand(output[k], out[i])

\* C2: the final output is sorted ascending by (Source, OMA_URI): every pair of
\* adjacent output records is in lexicographic order.
C2_OutputSorted ==
    pc = "done" =>
        \A k \in 1..(Len(output) - 1) : PairLeq(output[k], output[k + 1])

\* C2 witness: two records came out of the walk in descending order and are
\* both in the final output
C2_Witness ==
    /\ pc = "done"
    /\ Len(out) >= 2 /\ Len(output) >= 2
    /\ ~PairLeq(out[1], out[2])
    /\ \E k \in 1..Len(output) : output[k].OMA_URI = out[1].OMA_URI
    /\ \E k \in 1..Len(output) : output[k].OMA_URI = out[2].OMA_URI

\* C3: in the final output every record has a non-empty address and no two
\* records have the same address.
C3_AddressesUniqueNonEmpty ==
    pc = "done" =>
        /\ \A k \in 1..Len(output) : output[k].OMA_URI # << >>
        /\ \A k, m \in 1..Len(output) : output[k].OMA_URI = output[m].OMA_URI => k = m

\* C3 witness: the walk returned two records with the same address and one with
\* an empty address, and the output has been written
C3_Witness ==
    /\ pc = "done"
    /\ \E i, j \in 1..Len(out) : i # j /\ out[i].OMA_URI = out[j].OMA_URI /\ out[i].OMA_URI # << >>
    /\ \E i \in 1..Len(out) : out[i].OMA_URI = << >>
    /\ Len(output) >= 1

(***************************************************************************)
(* discover_exec_entries_from_zip, one member of the bundle after another  *)
(***************************************************************************)
\* `for name in zf.namelist()`: a member that is no .xml file
SkipNotXml ==
    /\ pc = "scan"
    /\ docIdx <= Len(bundle)
    /\ ~is_xml(bundle[docIdx].name)
    /\ docIdx' = docIdx + 1
    /\ UNCHANGED <<bundle, pc, stack, visit, out, emitted, seen, execs, output, call, ret>>
    /\ UNCHANGED <<variantVars, downloadVars>>

\* a bug the loop could have: the exception of ET.fromstring is not caught
SkipUnparsable_raise ==
    /\ pc = "scan"
    /\ docIdx <= Len(bundle)
    /\ is_xml(bundle[docIdx].name)
    /\ bundle[docIdx].kind = "malformed"
    /\ pc' = "raised"
    /\ UNCHANGED <<bundle, docIdx, stack, visit, out, emitted, seen, execs, output, call, ret>>
    /\ UNCHANGED <<variantVars, downloadVars>>

\* ET.fromstring raises: `except Exception: continue`
SkipUnparsable ==
    /\ pc = "scan"
    /\ docIdx <= Len(bundle)
    /\ is_xml(bundle[docIdx].name)
    /\ bundle[docIdx].kind = "malformed"
    /\ docIdx' = docIdx + 1
    /\ UNCHANGED <<bundle, pc, stack, visit, out, emitted, seen, execs, output, call, ret>>
    /\ UNCHANGED <<variantVars, downloadVars>>

\* no <MgmtTree> in the document: `if mgmt is None: continue`
SkipNoMgmtTree ==
    /\ pc = "scan"
    /\ docIdx <= Len(bundle)
    /\ is_xml(bundle[docIdx].name)
    /\ bundle[docIdx].kind = "nomgmt"
    /\ docIdx' = docIdx + 1
    /\ UNCHANGED <<bundle, pc, stack, visit, out, emitted, seen, execs, output, call, ret>>
    /\ UNCHANGED <<variantVars, downloadVars>>

\* `for top in mgmt`: the walk() calls for the top-level nodes
StartWalk ==
    /\ pc = "scan"
    /\ docIdx <= Len(bundle)
    /\ is_xml(bundle[docIdx].name)
    /\ bundle[docIdx].kind = "tree"
    /\ LET frames == top_frames(bundle[docIdx].nodes)
       IN  /\ stack' = frames
           /\ IF frames = << >>
              THEN docIdx' = docIdx + 1 /\ pc' = "scan"
              ELSE docIdx' = docIdx /\ pc' = "walk"
    /\ UNCHANGED <<bundle, visit, out, emitted, seen, execs, output, call, ret>>
    /\ UNCHANGED <<variantVars, downloadVars>>

\* one walk() call: the next pending one, in document order
WalkStep ==
    /\ pc = "walk"
    /\ stack # << >>
    /\ LET nodes == bundle[docIdx].nodes
           locals == walk_locals(nodes, Head(stack), bundle[docIdx].name)
           rest == child_frames(nodes, locals) \o Tail(stack)
       IN  /\ visit' = Some([doc |-> docIdx] @@ locals)
           /\ out' = IF locals.record # None THEN Append(out, locals.record[1]) ELSE out
           /\ emitted' = IF locals.record # None
                         THEN Append(emitted, <<docIdx, locals.node>>)
                         ELSE emitted
           /\ stack' = rest
           /\ IF rest = << >>
              THEN docIdx' = docIdx + 1 /\ pc' = "scan"
              ELSE docIdx' = docIdx /\ pc' = "walk"
    /\ UNCHANGED <<bundle, seen, execs, output, call, ret>>
    /\ UNCHANGED <<variantVars, downloadVars>>

\* `return out`: main goes on with raw_execs
DiscoverReturn ==
    /\ pc = "scan"
    /\ docIdx > Len(bundle)
    /\ pc' = "dedup"
    /\ UNCHANGED <<bundle, docIdx, stack, visit, out, emitted, seen, execs, output, call, ret>>
    /\ UNCHANGED <<variantVars, downloadVars>>

(***************************************************************************)
(* Bundles.  Either one document of up to MaxNodes nodes, of any shape,    *)
(* each node with any of a few DFProperties blocks or none; or up to       *)
(* MaxDocs small documents of any kind.                                    *)
(***************************************************************************)
TagExec == <<"E", "x", "e", "c">>

TagGet == <<"G", "e", "t">>

\* the DFProperties a node of the one-document bundle may have: none (0), or
\* one of six blocks
BlockIds == 0..6

BlockOf(t, owner) ==
    CASE t = 0 -> None
      \* Exec-capable, every attribute present
      [] t = 1 -> Some(Block(owner, Some(<<TagGet, TagExec>>),
                    Some(<<" ", "d", " ", " ", "d">>),
                    Some([OsBuildVersion |-> Some(<<"1", "0">>)]),
                    Some([child |-> Some(<<"c", "h", "r">>), text |-> << >>]),
                    Some(<<"5">>)))
      \* Exec-capable, nothing else
      [] t = 2 -> Some(Block(owner, Some(<<TagExec>>), None, None, None, None))
      \* not Exec-capable, every attribute present
      [] t = 3 -> Some(Block(owner, Some(<<TagGet>>), Some(<<"q">>),
                    Some([OsBuildVersion |-> Some(<<"9">>)]),
                    Some([child |-> Some(<<"i", "n", "t">>), text |-> << >>]),
                    Some(<<"7">>)))
      \* no children at all
      [] t = 4 -> Some(Block(owner, None, None, None, None, None))
      \* Exec-capable (namespaced tag), format "null" given as text, blank attributes
      [] t = 5 -> Some(Block(owner, Some(<<<<"{", "n", "}", "E", "X", "E", "C">>>>),
                    Some(<<" ", " ">>), Some([OsBuildVersion |-> None]),
                    Some([child |-> None, text |-> <<" ", "N", "U", "L", "L">>]),
                    Some(<<" ">>)))
      \* no AccessType, description and version only
      [] OTHER -> Some(Block(owner, None, Some(<<"p">>),
                    Some([OsBuildVersion |-> Some(<<" ", "7">>)]), None, None))

NodeLetters == <<"a", "b", "c", "d", "e", "g", "h">>

\* node i of the one-document bundle: named by its index, top-level nodes with a Path
WalkNode(i, par, t) ==
    [parent |-> par, NodeName |-> Some(<<NodeLetters[i]>>),
     Path |-> IF par = 0 THEN Some(<<".", "/", "p">>) ELSE None,
     DFProperties |-> BlockOf(t, i)]

DocA == <<"a", ".", "x", "m", "l">>

RECURSIVE IsSelfOrAncestor(_, _, _)
\* node a is node j or one of the nodes enclosing it
IsSelfOrAncestor(parents, a, j) ==
    j # 0 /\ (a = j \/ IsSelfOrAncestor(parents, a, parents[j]))

\* the nodes are numbered in document order: each node is a child of MgmtTree or
\* of a node that is still open when the node before it has been read
InDocumentOrder(parents) ==
    /\ \A i \in 1..Len(parents) : parents[i] < i
    /\ \A i \in 1..Len(parents) :
          parents[i] = 0 \/ IsSelfOrAncestor(parents, parents[i], i - 1)

\* the one-document bundle with the given parents and blocks
WalkBundle(parents, blocks) ==
    <<[name |-> DocA, kind |-> "tree",
       nodes |-> [i \in 1..Len(parents) |-> WalkNode(i, parents[i], blocks[i])]]>>

\* an Exec-capable node named c with no Path
ExecLeaf(par, c, owner) ==
    [parent |-> par, NodeName |-> Some(<<c>>), Path |-> None,
     DFProperties |-> Some(Block(owner, Some(<<TagExec>>), None, None, None, None))]

SmallTrees ==
    { <<ExecLeaf(0, "a", 1)>>,
      <<ExecLeaf(0, "b", 1), ExecLeaf(1, "a", 2)>>,
      \* an Exec-capable node with no name and no path, and the address a twice
      <<[parent |-> 0, NodeName |-> None, Path |-> None,
         DFProperties |-> Some(Block(1, Some(<<TagExec>>), None, None, None, None))],
        ExecLeaf(1, "a", 2), ExecLeaf(0, "a", 3)>> }

SmallDocs ==
    {[name |-> name, kind |-> "tree", nodes |-> nodes] :
        name \in {DocA, <<"b", ".", "X", "M", "L">>}, nodes \in SmallTrees}
    \cup {[name |-> DocA, kind |-> kind, nodes |-> << >>] : kind \in {"malformed", "nomgmt"}}
    \cup {[name |-> <<"r", ".", "t", "x", "t">>, kind |-> "malformed", nodes |-> << >>]}

SmallBundles == UNION {[1..k -> SmallDocs] : k \in 0..MaxDocs}

Init ==
    /\ \/ \E k \in 0..MaxNodes :
             \E parents \in [1..k -> 0..(k - 1)], blocks \in [1..k -> BlockIds] :
                /\ InDocumentOrder(parents)
                /\ bundle = WalkBundle(parents, blocks)
       \/ bundle \in SmallBundles
    /\ pc = "scan"
    /\ docIdx = 1
    /\ stack = << >> /\ visit = None
    /\ out = << >> /\ emitted = << >>
    /\ seen = << >> /\ execs = << >> /\ output = << >>
    /\ call = << >> /\ ret = None
    /\ strictOut = << >> /\ attempt = 0 /\ tries = << >>

Next ==
    \/ SkipNotXml
    \/ SkipUnparsable
    \/ SkipNoMgmtTree
    \/ StartWalk
    \/ WalkStep
    \/ DiscoverReturn
    \/ Dedup
    \/ Sort
    \/ Finalize

Spec == Init /\ [][Next]_vars

(***************************************************************************)
(* The tree, read off the document rather than off the walk                *)
(***************************************************************************)
RECURSIVE Lineage(_, _)
\* the blocks of node i and of the nodes enclosing it, nearest first, each once
Lineage(nodes, i) ==
    IF i = 0 THEN << >>
    ELSE nodes[i].DFProperties \o Lineage(nodes, nodes[i].parent)

\* the node's own block if it has one, otherwise the nearest ancestor's
EffectiveBlock(nodes, i) ==
    IF Lineage(nodes, i) = << >> THEN None ELSE Some(Lineage(nodes, i)[1])

\* the effective block of node i declares the execute capability
ExecCapable(nodes, i) ==
    /\ EffectiveBlock(nodes, i) # None
    /\ has_exec_access(EffectiveBlock(nodes, i)[1])

\* the walk of member d is over
Walked(d) == d < docIdx \/ pc \notin {"scan", "walk"}

\* C4: the walk emits exactly one record for each node whose effective block (own
\* block, else the nearest ancestor's) declares the execute capability, none for
\* any other node, and at most one record per node.
C4_OneRecordPerExecNode ==
    /\ Len(out) = Len(emitted)
    /\ \A k \in 1..Len(emitted) :
          /\ ExecCapable(bundle[emitted[k][1]].nodes, emitted[k][2])
          /\ \A m \in 1..Len(emitted) : emitted[m] = emitted[k] => m = k
    /\ \A d \in 1..Len(bundle) :
          (Walked(d) /\ is_xml(bundle[d].name) /\ bundle[d].kind = "tree") =>
              \A i \in 1..Len(bundle[d].nodes) :
                  ExecCapable(bundle[d].nodes, i) =>
                      \E k \in 1..Len(emitted) : emitted[k] = <<d, i>>

\* C4 witness: the walk is over; a node with no block of its own was emitted
\* through its parent's block, and another node, not execute-capable, was not
C4_Witness ==
    /\ pc = "dedup"
    /\ \E k \in 1..Len(emitted) :
          LET nodes == bundle[emitted[k][1]].nodes
              i == emitted[k][2]
          IN  /\ nodes[i].DFProperties = None
              /\ nodes[i].parent # 0
              /\ nodes[nodes[i].parent].DFProperties # None
    /\ \E i \in 1..Len(bundle[1].nodes) :
          /\ ~ExecCapable(bundle[1].nodes, i)
          /\ \A k \in 1..Len(emitted) : emitted[k] # <<1, i>>

\* C5: at every node the walk visits, the property chain is exactly the direct
\* ancestor lineage nearest-first: the node's own block (if any) followed by the
\* blocks of its proper ancestors from closest to farthest, each block once; for a
\* top-level node it is [own block] or empty.
C5_ChainIsLineage ==
    visit # None =>
        visit[1].cur_chain = Lineage(bundle[visit[1].doc].nodes, visit[1].node)

\* C7: the record of an execute-capable node takes its declared format and
\* default value from the effective block only (absent when that block lacks
\* them, whatever farther blocks hold), and its description and minimum version
\* from the nearest block of the whole chain that carries a non-empty one.
C7_FormatDefaultNotInherited ==
    (visit # None /\ visit[1].record # None) =>
        LET nodes == bundle[visit[1].doc].nodes
            rec == visit[1].record[1]
            eff == EffectiveBlock(nodes, visit[1].node)[1]
            line == Lineage(nodes, visit[1].node)
            d == FirstCarrier(line, "Description")
            v == FirstCarrier(line, "OsBuildVersion")
        IN  /\ eff.DFFormat = None => rec.DeclaredFormat = None
            /\ eff.DFFormat # None => rec.DeclaredFormat = df_format(eff)
            /\ IsBlank(OrEmpty(eff.DefaultValue)) => rec.DefaultValue = None
            /\ ~IsBlank(OrEmpty(eff.DefaultValue)) =>
                  (rec.DefaultValue # None /\ IsTrimOf(rec.DefaultValue[1], eff.DefaultValue[1]))
            /\ IF d = 0 THEN rec.Description = None
               ELSE /\ rec.Description # None
                    /\ IsNormalizationOf(rec.Description[1], RawValue(line[d], "Description"))
            /\ IF v = 0 THEN rec.MinOSVersion = None
               ELSE /\ rec.MinOSVersion # None
                    /\ IsTrimOf(rec.MinOSVersion[1], RawValue(line[v], "OsBuildVersion"))

\* C7 witness: the node's own block declares Exec and nothing else, its parent's
\* block has a format, a default, a description and a version; the record has no
\* format and no default but the parent's description and version
C7_Witness ==
    /\ visit # None /\ visit[1].record # None
    /\ LET nodes == bundle[visit[1].doc].nodes
           n == nodes[visit[1].node]
           rec == visit[1].record[1]
       IN  /\ n.DFProperties # None /\ n.parent # 0
           /\ n.DFProperties[1].DFFormat = None /\ n.DFProperties[1].Description = None
           /\ nodes[n.parent].DFProperties # None
           /\ nodes[n.parent].DFProperties[1].DFFormat # None
           /\ nodes[n.parent].DFProperties[1].DefaultValue = Some(<<"7">>)
           /\ rec.DeclaredFormat = None /\ rec.DefaultValue = None
           /\ rec.Description = Some(<<"q">>) /\ rec.MinOSVersion = Some(<<"9">>)

(***************************************************************************)
(* Address composition: one document of up to MaxNodes nodes of any shape, *)
(* each with or without a name, a Path and an Exec-capable block; or the   *)
(* document of the Foo/Bar scenario                                        *)
(***************************************************************************)
\* a block that declares Exec and nothing else
ExecBlock(owner) == Block(owner, Some(<<TagExec>>), None, None, None, None)

\* what a node of the document may look like
AddrKinds == 0..5

AddrNode(i, par, t) ==
    [parent |-> par,
     \* kind 4: a NodeName with blank text
     NodeName |-> IF t = 4 THEN Some(<<" ">>) ELSE Some(<<" ", NodeLetters[i]>>),
     \* kinds 2, 3: a Path; kind 5: a Path with blank text; otherwise no Path
     Path |-> CASE t = 2 -> Some(<<".", "/", "p">>)
                [] t = 3 -> Some(<<" ", "q", "/", " ">>)
                [] t = 5 -> Some(<<" ", " ">>)
                [] OTHER -> None,
     \* kinds 1, 2: no block of its own
     DFProperties |-> IF t \in {1, 2} THEN None ELSE Some(ExecBlock(i))]

AddrBundle(parents, kinds) ==
    <<[name |-> DocA, kind |-> "tree",
       nodes |-> [i \in 1..Len(parents) |-> AddrNode(i, parents[i], kinds[i])]]>>

FooPath ==
    <<".", "/", "D", "e", "v", "i", "c", "e", "/", "V", "e", "n", "d", "o", "r", "/",
      "M", "S", "F", "T">>

\* <Node>Foo, Path ./Device/Vendor/MSFT, no DFProperties; in it <Node>Bar with
\* AccessType Exec, DFFormat chr
FooBarBundle ==
    <<[name |-> DocA, kind |-> "tree",
       nodes |-> <<[parent |-> 0, NodeName |-> Some(<<"F", "o", "o">>),
                    Path |-> Some(FooPath), DFProperties |-> None],
                   [parent |-> 1, NodeName |-> Some(<<"B", "a", "r">>),
                    Path |-> None,
                    DFProperties |->
                        Some(Block(2, Some(<<TagExec>>), None, None,
                                   Some([child |-> Some(<<"c", "h", "r">>), text |-> << >>]),
                                   None))]>>]>>

InitAddr ==
    /\ \/ \E k \in 0..MaxNodes :
             \E parents \in [1..k -> 0..(k - 1)], kinds \in [1..k -> AddrKinds] :
                /\ InDocumentOrder(parents)
                /\ bundle = AddrBundle(parents, kinds)
       \/ bundle = FooBarBundle
    /\ pc = "scan"
    /\ docIdx = 1
    /\ stack = << >> /\ visit = None
    /\ out = << >> /\ emitted = << >>
    /\ seen = << >> /\ execs = << >> /\ output = << >>
    /\ call = << >> /\ ret = None
    /\ strictOut = << >> /\ attempt = 0 /\ tries = << >>

NextAddr == StartWalk \/ WalkStep \/ DiscoverReturn

SpecAddr == InitAddr /\ [][NextAddr]_vars

\* the node's explicit path override: the text of its Path with the ends trimmed,
\* absent when the node has no Path or a blank one
Override(n) ==
    IF n.Path = None \/ IsBlank(n.Path[1]) THEN None ELSE Some(Strip(n.Path[1]))

\* the node's local name: the text of its NodeName with the ends trimmed
LocalName(n) == IF n.NodeName = None THEN << >> ELSE Strip(n.NodeName[1])

\* compose(prefix, name): name for an empty prefix, prefix for an empty name,
\* otherwise the two with one separator between them
Compose(prefix, name) ==
    IF prefix = << >> THEN name
    ELSE IF name = << >> THEN prefix
    ELSE WithoutFinalSep(prefix) \o <<"/">> \o name

RECURSIVE Address(_, _)
\* the address of node i, read off the tree from the node up to the root
Address(nodes, i) ==
    LET n == nodes[i]
        inherited == IF n.parent = 0 THEN << >> ELSE Address(nodes, n.parent)
        P == IF Override(n) # None THEN Override(n)[1] ELSE inherited
    IN  Compose(P, LocalName(n))

FooBarAddress == FooPath \o <<"/", "F", "o", "o", "/", "B", "a", "r">>

\* C11: the address of every node the walk visits is compose(P, local name), P
\* being the node's explicit path override if present and otherwise the inherited
\* prefix, which is the parent's composed address and empty for a top-level node;
\* every record carries the address of its node; the Foo/Bar document yields
\* exactly one record, with address ./Device/Vendor/MSFT/Foo/Bar.
C11_AddressComposition ==
    /\ visit # None =>
          visit[1].this_uri = Address(bundle[visit[1].doc].nodes, visit[1].node)
    /\ \A k \in 1..Len(out) :
          out[k].OMA_URI = Address(bundle[emitted[k][1]].nodes, emitted[k][2])
    /\ (bundle = FooBarBundle /\ pc = "dedup") =>
          (Len(out) = 1 /\ out[1].OMA_URI = FooBarAddress)

\* C11 witness: the Foo/Bar document has been walked and gave the one record of
\* Bar, with address ./Device/Vendor/MSFT/Foo/Bar
C11_Witness ==
    /\ bundle = FooBarBundle /\ pc = "dedup"
    /\ Len(out) = 1
    /\ out[1].CommandName = <<"B", "a", "r">>
    /\ out[1].OMA_URI = FooBarAddress

(***************************************************************************)
(* discover_exec_entries_from_zip on its own: bundles of up to MaxMembers  *)
(* members, each a small document, an unparsable one, one without a        *)
(* management tree, or no .xml file at all                                 *)
(***************************************************************************)
InitScan ==
    /\ \E k \in 0..MaxMembers : bundle \in [1..k -> SmallDocs]
    /\ pc = "scan"
    /\ docIdx = 1
    /\ stack = << >> /\ visit = None
    /\ out = << >> /\ emitted = << >>
    /\ seen = << >> /\ execs = << >> /\ output = << >>
    /\ call = << >> /\ ret = None
    /\ strictOut = << >> /\ attempt = 0 /\ tries = << >>

NextScan ==
    \/ SkipNotXml
    \/ SkipUnparsable
    \/ SkipNoMgmtTree
    \/ StartWalk
    \/ WalkStep
    \/ DiscoverReturn

SpecScan == InitScan /\ [][NextScan]_vars

(***************************************************************************)
(* The records of a bundle, read off its documents                         *)
(***************************************************************************)
\* the member is a document that cannot be parsed or has no management tree
IsBadDoc(doc) == is_xml(doc.name) /\ doc.kind \in {"malformed", "nomgmt"}

\* the bundle with its bad documents taken out
WithoutBad(members) == SelectSeq(members, LAMBDA doc : ~IsBadDoc(doc))

\* the record of node i of a document: its address, its attributes along its
\* lineage, format and default value of its effective block
NodeRecord(doc, i) ==
    exec_record(doc.name, LocalName(doc.nodes[i]), Address(doc.nodes, i),
                EffectiveBlock(doc.nodes, i)[1], Lineage(doc.nodes, i))

\* the records of one well-formed document: one per execute-capable node, in
\* document order
DocRecords(doc) ==
    LET capable == SelectSeq([i \in 1..Len(doc.nodes) |-> i],
                             LAMBDA i : ExecCapable(doc.nodes, i))
    IN  [k \in 1..Len(capable) |-> NodeRecord(doc, capable[k])]

RECURSIVE Collected(_)
\* the records of a bundle that holds no bad document, member after member
Collected(members) ==
    IF members = << >> THEN << >>
    ELSE (IF is_xml(Head(members).name) THEN DocRecords(Head(members)) ELSE << >>)
         \o Collected(Tail(members))

\* C12: a document that cannot be parsed or has no management tree contributes
\* no records and does not abort the run: after any number of members the
\* records collected are exactly those of the members processed so far with the
\* bad documents taken out, and the run ends only after the last member, with
\* exactly the records of the bundle without its bad documents.
C12_BadDocumentsSkipped ==
    /\ pc = "scan" =>
          out = Collected(WithoutBad(SubSeq(bundle, 1, docIdx - 1)))
    /\ pc \notin {"scan", "walk"} =>
          /\ docIdx = Len(bundle) + 1
          /\ out = Collected(WithoutBad(bundle))

\* C12 witness: the walk of a bundle is over whose first member gave a record,
\* whose second cannot be parsed and whose last gave a record too
C12_Witness ==
    /\ pc = "dedup"
    /\ Len(bundle) = 3
    /\ ~IsBadDoc(bundle[1]) /\ DocRecords(bundle[1]) # << >>
    /\ IsBadDoc(bundle[2]) /\ bundle[2].kind = "malformed"
    /\ ~IsBadDoc(bundle[3]) /\ DocRecords(bundle[3]) # << >>
    /\ Len(out) = Len(DocRecords(bundle[1])) + Len(DocRecords(bundle[3]))

(***************************************************************************)
(* mdm.py: the walker that looks at a node's own DFProperties only.  Its   *)
(* lname, first_child, has_exec_access, df_format and join_uri are those   *)
(* of mdm-exec-extractor.py; first_child_text and default_value differ.    *)
(***************************************************************************)
\* mdm.py first_child_text: None for a missing child or a falsy text, else the
\* stripped text (which is "" for a blank text)
mdm_first_child_text(child) ==
    IF child = None THEN None
    ELSE IF child[1] = << >> THEN None
    ELSE Some(Strip(child[1]))

\* mdm.py default_value
mdm_default_value(dfprops) ==
    LET dv == mdm_first_child_text(dfprops.DefaultValue)
    IN  IF dv = None \/ dv[1] = << >> THEN None ELSE dv

\* the record mdm.py's walk() appends
mdm_exec_record(filename, node_name, this_uri, dfprops) ==
    [Source |-> AfterLast(filename, "/"),
     CommandName |-> node_name,
     OMA_URI |-> this_uri,
     DeclaredFormat |-> df_format(dfprops),
     DefaultValue |-> mdm_default_value(dfprops)]

\* the locals of one walk(node, inherited_path, filename) call of mdm.py
mdm_walk_locals(nodes, frame, filename) ==
    LET n == nodes[frame.node]
        node_name == OrEmpty(mdm_first_child_text(n.NodeName))
        path == mdm_first_child_text(n.Path)
        path_prefix == IF path # None /\ path[1] # << >> THEN path[1] ELSE frame.inherited_path
        this_uri == join_uri(path_prefix, node_name)
        dfprops == n.DFProperties
    IN  [node |-> frame.node, this_uri |-> this_uri,
         record |-> IF dfprops # None /\ has_exec_access(dfprops[1])
                    THEN Some(mdm_exec_record(filename, node_name, this_uri, dfprops[1]))
                    ELSE None]

\* the walk() calls mdm.py makes for the <Node> children of a visited node
mdm_child_frames(nodes, locals) ==
    LET kids == ChildNodes(nodes, locals.node)
    IN  [k \in 1..Len(kids) |-> [node |-> kids[k], inherited_path |-> locals.this_uri]]

\* the walk() calls mdm.py makes for the top-level <Node> elements of MgmtTree
mdm_top_frames(nodes) ==
    LET tops == ChildNodes(nodes, 0)
    IN  [k \in 1..Len(tops) |->
            [node |-> tops[k],
             inherited_path |-> OrEmpty(mdm_first_child_text(nodes[tops[k]].Path))]]

\* mdm.py is run on the bundle mdm-exec-extractor.py has gone through
MdmStart ==
    /\ pc = "dedup"
    /\ pc' = "mdm_scan"
    /\ docIdx' = 1
    /\ stack' = << >>
    /\ strictOut' = << >>
    /\ UNCHANGED <<bundle, visit, out, emitted, seen, execs, output, call, ret, downloadVars>>

\* mdm.py `for top in mgmt`: the walk() calls for the top-level nodes
MdmStartWalk ==
    /\ pc = "mdm_scan"
    /\ docIdx <= Len(bundle)
    /\ is_xml(bundle[docIdx].name)
    /\ bundle[docIdx].kind = "tree"
    /\ LET frames == mdm_top_frames(bundle[docIdx].nodes)
       IN  /\ stack' = frames
           /\ IF frames = << >>
              THEN docIdx' = docIdx + 1 /\ pc' = "mdm_scan"
              ELSE docIdx' = docIdx /\ pc' = "mdm_walk"
    /\ UNCHANGED <<bundle, visit, out, emitted, seen, execs, output, call, ret>>
    /\ UNCHANGED <<variantVars, downloadVars>>

\* one walk() call of mdm.py: the next pending one, in document order
MdmWalkStep ==
    /\ pc = "mdm_walk"
    /\ stack # << >>
    /\ LET nodes == bundle[docIdx].nodes
           locals == mdm_walk_locals(nodes, Head(stack), bundle[docIdx].name)
           rest == mdm_child_frames(nodes, locals) \o Tail(stack)
       IN  /\ strictOut' = IF locals.record # None
                           THEN Append(strictOut, locals.record[1])
                           ELSE strictOut
           /\ stack' = rest
           /\ IF rest = << >>
              THEN docIdx' = docIdx + 1 /\ pc' = "mdm_scan"
              ELSE docIdx' = docIdx /\ pc' = "mdm_walk"
    /\ UNCHANGED <<bundle, visit, out, emitted, seen, execs, output, call, ret, downloadVars>>

\* mdm.py `return out`
MdmReturn ==
    /\ pc = "mdm_scan"
    /\ docIdx > Len(bundle)
    /\ pc' = "mdm_done"
    /\ UNCHANGED <<bundle, docIdx, stack, visit, out, emitted, seen, execs, output, call, ret>>
    /\ UNCHANGED <<variantVars, downloadVars>>

(***************************************************************************)
(* The two walkers on the same document: up to MaxNodes nodes of any       *)
(* shape, each with no block, an Exec-capable one, one that is not, or an  *)
(* empty one, with and without an own Path and a name                      *)
(***************************************************************************)
VariantKinds == 0..5

VariantNode(i, par, t) ==
    [parent |-> par,
     \* kind 5: a NodeName with blank text
     NodeName |-> IF t = 5 THEN Some(<<" ">>) ELSE Some(<<NodeLetters[i]>>),
     \* kind 4: an own Path; kind 5: a Path with blank text; else top-level nodes only
     Path |-> CASE t = 4 -> Some(<<" ", "q", "/", " ">>)
                [] t = 5 -> Some(<<" ", " ">>)
                [] OTHER -> IF par = 0 THEN Some(<<".", "/", "p">>) ELSE None,
     DFProperties |->
         CASE t = 0 -> None
           [] t = 2 -> Some(Block(i, Some(<<TagGet>>), None, None, None, Some(<<"7">>)))
           [] t = 3 -> Some(Block(i, None, None, None, None, None))
           [] OTHER -> Some(ExecBlock(i))]

VariantBundle(parents, kinds) ==
    <<[name |-> DocA, kind |-> "tree",
       nodes |-> [i \in 1..Len(parents) |-> VariantNode(i, parents[i], kinds[i])]]>>

InitVariants ==
    /\ \E k \in 0..MaxNodes :
          \E parents \in [1..k -> 0..(k - 1)], kinds \in [1..k -> VariantKinds] :
             /\ InDocumentOrder(parents)
             /\ bundle = VariantBundle(parents, kinds)
    /\ pc = "scan"
    /\ docIdx = 1
    /\ stack = << >> /\ visit = None
    /\ out = << >> /\ emitted = << >>
    /\ seen = << >> /\ execs = << >> /\ output = << >>
    /\ call = << >> /\ ret = None
    /\ strictOut = << >> /\ attempt = 0 /\ tries = << >>

NextVariants ==
    \/ StartWalk
    \/ WalkStep
    \/ DiscoverReturn
    \/ MdmStart
    \/ MdmStartWalk
    \/ MdmWalkStep
    \/ MdmReturn

SpecVariants == InitVariants /\ [][NextVariants]_vars

\* the (source, address) pairs of a list of records
Commands(records) ==
    {<<records[k].Source, records[k].OMA_URI>> : k \in 1..Len(records)}

\* C13: every command (source, address) the own-block-only walker detects in a
\* document is detected, with the same address, by the inheritance-aware walker:
\* the commands of the latter are a superset of those of the former.
C13_StrictContained == Commands(strictOut) \subseteq Commands(out)

\* C13 witness: both walkers are done; the strict one detected a command, and
\* the inheritance-aware one detected that and one the strict one did not
C13_Witness ==
    /\ pc = "mdm_done"
    /\ strictOut # << >>
    /\ Commands(strictOut) \subseteq Commands(out)
    /\ Commands(out) # Commands(strictOut)

(***************************************************************************)
(* download(url, retries).  One attempt is urlopen followed by read: it    *)
(* either gives the bytes read or raises an Exception.                     *)
(***************************************************************************)
Urls == {"learn", "zip"}

\* what resp.read() may return (b"" included)
Payloads == {<< >>, <<"P", "K">>}

\* what urlopen / read may raise
Errors == {"URLError", "timeout"}

InitDownload ==
    /\ Idle
    /\ pc = "loop"
    /\ \E url \in Urls, retries \in -1..MaxRetries :
          call = [fn |-> "download", url |-> url, retries |-> retries]
    /\ ret = None

\* `for attempt in range(1, retries + 1)`: the next value
LoopNext ==
    /\ pc = "loop"
    /\ call.fn = "download"
    /\ attempt < call.retries
    /\ attempt' = attempt + 1
    /\ pc' = "try"
    /\ UNCHANGED <<tries, call, ret, pipelineVars, variantVars>>

\* the range is exhausted: `return b""`
LoopExhausted ==
    /\ pc = "loop"
    /\ call.fn = "download"
    /\ attempt >= call.retries
    /\ ret' = Some([kind |-> "return", value |-> << >>])
    /\ pc' = "return"
    /\ UNCHANGED <<attempt, tries, call, pipelineVars, variantVars>>

\* a bug the handler could have: the last failure is not raised again
AttemptFails_swallowed ==
    /\ pc = "try"
    /\ \E e \in Errors :
          tries' = Append(tries, [attempt |-> attempt, outcome |-> "error", exc |-> e])
    /\ pc' = "loop"
    /\ UNCHANGED <<attempt, call, ret, pipelineVars, variantVars>>

\* urlopen and read succeed: `return resp.read()`
AttemptSucceeds ==
    /\ pc = "try"
    /\ \E data \in Payloads :
          /\ tries' = Append(tries, [attempt |-> attempt, outcome |-> "ok", data |-> data])
          /\ ret' = Some([kind |-> "return", value |-> data])
    /\ pc' = "return"
    /\ UNCHANGED <<attempt, call, pipelineVars, variantVars>>

\* urlopen or read raises: the handler logs, and raises again on the last attempt
AttemptFails ==
    /\ pc = "try"
    /\ \E e \in Errors :
          /\ tries' = Append(tries, [attempt |-> attempt, outcome |-> "error", exc |-> e])
          /\ IF attempt = call.retries
             THEN ret' = Some([kind |-> "raise", exc |-> e]) /\ pc' = "raised"
             ELSE ret' = ret /\ pc' = "loop"
    /\ UNCHANGED <<attempt, call, pipelineVars, variantVars>>

NextDownload == LoopNext \/ LoopExhausted \/ AttemptSucceeds \/ AttemptFails

SpecDownload == InitDownload /\ [][NextDownload]_vars

\* download is over, by a return or by an exception
DownloadOver == pc \in {"return", "raised"}

\* the last attempt made so far
LastTry == tries[Len(tries)]

\* C14: the attempts are numbered 1, 2, ... and never more than `retries`; a
\* successful attempt is the last one made and download returns its bytes; after
\* a failed attempt before the one numbered `retries` download goes on; it raises
\* exactly when the attempt numbered `retries` has failed, with that failure; and
\* with retries >= 1 it returns only the bytes of a successful attempt.
C14_DownloadAttempts ==
    (call # << >> /\ call.fn = "download") =>
        LET r == call.retries
        IN  /\ \A i \in 1..Len(tries) : tries[i].attempt = i
            /\ Len(tries) <= (IF r >= 0 THEN r ELSE 0)
            /\ \A i \in 1..Len(tries) :
                  tries[i].outcome = "ok" =>
                     /\ i = Len(tries)
                     /\ pc = "return"
                     /\ ret = Some([kind |-> "return", value |-> tries[i].data])
            /\ (tries # << >> /\ LastTry.outcome = "error" /\ Len(tries) < r) =>
                  ~DownloadOver
            /\ pc = "raised" <=>
                  (tries # << >> /\ Len(tries) = r /\ LastTry.outcome = "error")
            /\ pc = "raised" => ret = Some([kind |-> "raise", exc |-> LastTry.exc])
            /\ (pc = "return" /\ r >= 1) => (tries # << >> /\ LastTry.outcome = "ok")

\* C14 witness: with retries = 3 the first two attempts failed, the third
\* succeeded and download returned its bytes
C14_Witness ==
    /\ pc = "return"
    /\ call.fn = "download" /\ call.retries = 3
    /\ Len(tries) = 3
    /\ tries[1].outcome = "error" /\ tries[2].outcome = "error"
    /\ tries[3].outcome = "ok" /\ tries[3].data = <<"P", "K">>
    /\ ret = Some([kind |-> "return", value |-> <<"P", "K">>])

====
